---- MODULE Spec2Model ----
(***************************************************************************)
(* Data processing core of the financial time-series ingestion pipeline.   *)
(*                                                                         *)
(* Two DataProcessor classes exist in the repository:                      *)
(*   "processor" : src/src/pipeline/processor.py                           *)
(*   "dag"       : src/airflow/dags/financial_pipeline.py                  *)
(* A DataFrame is a record [tz, numeric, col]: col maps column names to    *)
(* columns (sequences of equal length), tz is the zone of the dtype of the *)
(* timestamp column ("none" for a naive datetime64 column) and the         *)
(* timestamp cells are wall-clock hours in that zone; numeric is FALSE     *)
(* when the price and volume columns hold text that is not a number        *)
(* (object dtype).                                                         *)
(*                                                                         *)
(* FinancialTimeSeriesPipeline.run of financial_pipeline.py continues the  *)
(* "dag" processor with PipelineMonitor.check_data_quality,                *)
(* DataStorage.store_data and log_pipeline_metrics; "monitor" is the       *)
(* monitor called on a table by itself, as tests/test_monitoring.py does.  *)
(* Column names are the canonical lower-case ones that                     *)
(* DataCollector._standardize_columns produces ('Date' -> timestamp,       *)
(* 'Close' -> close, ...).                                                 *)
(*                                                                         *)
(* A float is an exact extended rational [n, d]: d > 0 is the finite value *)
(* n/d in lowest terms, 1/0 and -1/0 are the infinities and 0/0 is NaN,    *)
(* which is also how pandas marks a missing cell.                          *)
(*                                                                         *)
(* The services around the processors are modelled by themselves:          *)
(*   "limiter"         : RateLimiter of financial_pipeline.py (can_proceed)*)
(*   "utility_limiter" : RateLimiter of src/src/utils/rate_limiter.py      *)
(*   "workflow"        : the DAG of financial_timeseries_dag.py with the   *)
(*                       MetricsCollector its tasks record into            *)
(* Time is a clock of whole ticks that only moves forward.                 *)
(***************************************************************************)
EXTENDS Integers, Sequences, FiniteSets, TLC

VARIABLES impl, df, raw, pc, error, coerced, log, issues, trace, stored,
          clock, limiter, history, tasks, metrics

\* the rate limiter under test with the clock it reads and the calls made on
\* it, and the scheduled workflow with the MetricsCollector of its tasks
services == <<clock, limiter, history, tasks, metrics>>

vars == <<impl, df, raw, pc, error, coerced, log, issues, trace, stored,
          clock, limiter, history, tasks, metrics>>

----------------------------------------------------------------------------
(* Bounds of the model.                                                    *)

\* longest frame built from arbitrary sample bars
MaxLen == 3
\* longest frame built from a close pattern
MaxLong == 30
\* most required columns a provider table may lack
MaxDropped == 1
\* most arithmetic EMA updates a frame given to processor.py may need
\* (the exact rationals of macd_signal must fit TLC's integers)
MaxEmaSteps == 1

----------------------------------------------------------------------------
(* Floats as exact extended rationals.                                     *)

NaN == [n |-> 0, d |-> 0]
Inf == [n |-> 1, d |-> 0]
NegInf == [n |-> -1, d |-> 0]

Num(k) == [n |-> k, d |-> 1]

IsNaN(x) == x.d = 0 /\ x.n = 0
IsFinite(x) == x.d > 0

Abs(k) == IF k < 0 THEN -k ELSE k

Sign(k) == IF k < 0 THEN -1 ELSE IF k > 0 THEN 1 ELSE 0

RECURSIVE GCD(_, _)
GCD(a, b) == IF b = 0 THEN a ELSE GCD(b, a % b)

\* the float n/d, d > 0, in lowest terms
Frac(n, d) ==
    LET g == GCD(Abs(n), d)
    IN  [n |-> n \div g, d |-> d \div g]

FNeg(x) == [n |-> -x.n, d |-> x.d]

FAdd(x, y) ==
    IF IsNaN(x) \/ IsNaN(y) THEN NaN
    ELSE IF ~IsFinite(x) /\ ~IsFinite(y) THEN (IF x.n = y.n THEN x ELSE NaN)
    ELSE IF ~IsFinite(x) THEN x
    ELSE IF ~IsFinite(y) THEN y
    ELSE LET g == GCD(x.d, y.d)
         IN  Frac(x.n * (y.d \div g) + y.n * (x.d \div g), (x.d \div g) * y.d)

FSub(x, y) == FAdd(x, FNeg(y))

FMul(x, y) ==
    IF IsNaN(x) \/ IsNaN(y) THEN NaN
    ELSE IF ~IsFinite(x) \/ ~IsFinite(y)
         THEN (IF x.n = 0 \/ y.n = 0 THEN NaN
               ELSE [n |-> Sign(x.n) * Sign(y.n), d |-> 0])
    ELSE LET g1 == GCD(Abs(x.n), y.d)
             g2 == GCD(Abs(y.n), x.d)
         IN  Frac((x.n \div g1) * (y.n \div g2), (x.d \div g2) * (y.d \div g1))

\* IEEE division: x/0 is an infinity for x # 0 and NaN for x = 0
FDiv(x, y) ==
    IF IsNaN(x) \/ IsNaN(y) THEN NaN
    ELSE IF ~IsFinite(y) THEN (IF IsFinite(x) THEN Num(0) ELSE NaN)
    ELSE IF y.n = 0 THEN [n |-> Sign(x.n), d |-> 0]
    ELSE IF ~IsFinite(x) THEN [n |-> Sign(x.n) * Sign(y.n), d |-> 0]
    ELSE FMul(x, [n |-> Sign(y.n) * y.d, d |-> Abs(y.n)])

\* x < y and x > y on floats; every comparison with NaN is false
FLt(x, y) ==
    /\ ~IsNaN(x) /\ ~IsNaN(y)
    /\ IF IsFinite(x) /\ IsFinite(y) THEN x.n * y.d < y.n * x.d
       ELSE IF ~IsFinite(x) /\ ~IsFinite(y) THEN x.n < y.n
       ELSE IF ~IsFinite(x) THEN x.n < 0
       ELSE y.n > 0

FGt(x, y) == FLt(y, x)

FLe(x, y) == ~IsNaN(x) /\ ~IsNaN(y) /\ ~FLt(y, x)

\* a/b > c/d for b, d > 0, by comparing integer parts and then the
\* reciprocals of the remainders, so that no product is formed
RECURSIVE RatGt(_, _, _, _)
RatGt(a, b, c, d) ==
    IF a \div b # c \div d THEN a \div b > c \div d
    ELSE IF a % b = 0 THEN FALSE
    ELSE IF c % d = 0 THEN TRUE
    ELSE RatGt(d, c % d, b, a % b)

----------------------------------------------------------------------------
(* DataFrames.                                                             *)

RequiredColumns == {"timestamp", "open", "high", "low", "close", "volume"}
PriceColumns == {"open", "high", "low", "close"}
NumericColumns == {"open", "high", "low", "close", "volume"}

Zones == {"none", "UTC", "EST"}

\* hours east of UTC
UtcOffset(z) == IF z = "EST" THEN -5 ELSE 0

Columns(f) == DOMAIN f.col

NRows(f) ==
    IF Columns(f) = {} THEN 0 ELSE Len(f.col[CHOOSE c \in Columns(f) : TRUE])

\* the frame with its columns replaced or extended by those of new
WithCols(f, new) ==
    [f EXCEPT !.col = [c \in Columns(f) \cup DOMAIN new |->
                          IF c \in DOMAIN new THEN new[c] ELSE f.col[c]]]

----------------------------------------------------------------------------
(* pandas column operations used by the processors.                        *)

\* ffill().bfill(): leading gaps are filled from the first value that follows
FfillThenBfill(s) ==
    [i \in 1..Len(s) |->
        LET before == {j \in 1..i : ~IsNaN(s[j])}
            after  == {j \in i..Len(s) : ~IsNaN(s[j])}
        IN  IF before # {} THEN s[CHOOSE j \in before : \A k \in before : k <= j]
            ELSE IF after # {} THEN s[CHOOSE j \in after : \A k \in after : j <= k]
            ELSE NaN]

\* ffill(limit=1): a gap is filled only from the raw cell right before it
FfillLimitOne(s) ==
    [i \in 1..Len(s) |-> IF IsNaN(s[i]) /\ i > 1 THEN s[i - 1] ELSE s[i]]

\* Series.ffill(): a forward scan in which a missing cell takes the value
\* carried from the cell before it; nothing is carried into the first row.
\* FfillRange fills rows lo..hi given the value carried into row lo.
RECURSIVE FfillRange(_, _, _, _)
FfillRange(s, lo, hi, carry) ==
    IF hi < lo THEN <<>>
    ELSE IF lo = hi THEN <<IF IsNaN(s[lo]) THEN carry ELSE s[lo]>>
    ELSE LET mid  == (lo + hi) \div 2
             left == FfillRange(s, lo, mid, carry)
         IN  left \o FfillRange(s, mid + 1, hi, left[Len(left)])

Ffill(s) == FfillRange(s, 1, Len(s), NaN)

\* Series.fillna(v)
Fillna(s, v) == [i \in 1..Len(s) |-> IF IsNaN(s[i]) THEN v ELSE s[i]]

\* Series.diff(): delta[i] = s[i] - s[i-1], missing at the first row
Diff(s) == [i \in 1..Len(s) |-> IF i = 1 THEN NaN ELSE FSub(s[i], s[i - 1])]

\* sum of the non-missing cells of s[lo..hi]
RECURSIVE SumObs(_, _, _)
SumObs(s, lo, hi) ==
    IF hi < lo THEN Num(0)
    ELSE IF lo = hi THEN (IF IsNaN(s[lo]) THEN Num(0) ELSE s[lo])
    ELSE LET mid == (lo + hi) \div 2
         IN  FAdd(SumObs(s, lo, mid), SumObs(s, mid + 1, hi))

\* rolling(window=w, min_periods=1).mean()
RollingMeanMinPeriodsOne(s, w) ==
    [i \in 1..Len(s) |->
        LET lo   == IF i - w + 1 < 1 THEN 1 ELSE i - w + 1
            nobs == Cardinality({j \in lo..i : ~IsNaN(s[j])})
        IN  IF nobs >= 1 THEN FDiv(SumObs(s, lo, i), Num(nobs)) ELSE NaN]

\* Series.rolling(window=w).mean(): min_periods defaults to the window, so
\* the mean is missing unless the w trailing cells exist and none is missing
RollingMean(s, w) ==
    [i \in 1..Len(s) |->
        LET lo   == IF i - w + 1 < 1 THEN 1 ELSE i - w + 1
            nobs == Cardinality({j \in lo..i : ~IsNaN(s[j])})
        IN  IF nobs >= w THEN FDiv(SumObs(s, lo, i), Num(nobs)) ELSE NaN]

\* Series.ewm(span=span, adjust=False).mean()  (ignore_na=False,
\* min_periods=0), a forward scan over (weighted, old_wt) with
\* alpha = 2/(span+1): the first row starts the average, a row equal to the
\* average copies it, a missing row only ages the old weight.
EwmStep(p, cur, i, span) ==
    LET alpha == Frac(2, span + 1)
        ow    == FMul(p.old_wt, FSub(Num(1), alpha))
    IN  IF i = 1 THEN [w |-> cur, old_wt |-> Num(1)]
        ELSE IF ~IsNaN(p.w)
        THEN IF ~IsNaN(cur)
             THEN [w |-> IF p.w # cur
                         THEN FDiv(FAdd(FMul(ow, p.w), FMul(alpha, cur)),
                                   FAdd(ow, alpha))
                         ELSE p.w,
                   old_wt |-> Num(1)]
             ELSE [w |-> p.w, old_wt |-> ow]
        ELSE IF ~IsNaN(cur) THEN [w |-> cur, old_wt |-> p.old_wt]
        ELSE p

\* the (weighted, old_wt) pairs of rows lo..hi given the pair before row lo
RECURSIVE EwmRange(_, _, _, _, _)
EwmRange(s, span, lo, hi, carry) ==
    IF hi < lo THEN <<>>
    ELSE IF lo = hi THEN <<EwmStep(carry, s[lo], lo, span)>>
    ELSE LET mid  == (lo + hi) \div 2
             left == EwmRange(s, span, lo, mid, carry)
         IN  left \o EwmRange(s, span, mid + 1, hi, left[Len(left)])

Ewm(s, span) ==
    LET st == EwmRange(s, span, 1, Len(s), [w |-> NaN, old_wt |-> Num(1)])
    IN  [i \in 1..Len(s) |-> st[i].w]

----------------------------------------------------------------------------
(* DataProcessor.                                                          *)

SmaWindows == {20, 50, 200}
SmaColumn(w) == IF w = 20 THEN "sma_20" ELSE IF w = 50 THEN "sma_50" ELSE "sma_200"
RsiWindow == 14
MacdFast == 12
MacdSlow == 26
MacdSignal == 9

\* a required_columns list that forgets volume
MissingColumnsNoVolume(f) == (RequiredColumns \ {"volume"}) \ Columns(f)

\* set(required_columns) - set(df.columns)
MissingColumns(f) == RequiredColumns \ Columns(f)

\* rows with high above low
InvalidPricesHighAboveLow(f) ==
    {i \in 1..NRows(f) : FGt(f.col["high"][i], f.col["low"][i])}

\* df[df['low'] > df['high']].index
InvalidPrices(f) == {i \in 1..NRows(f) : FGt(f.col["low"][i], f.col["high"][i])}

\* volume forward filled with the prices before the fill with 0
HandleMissingValuesFfillVolume(f) ==
    WithCols(f, [c \in Columns(f) \cap NumericColumns |->
                    IF c \in PriceColumns THEN Ffill(f.col[c])
                    ELSE Fillna(Ffill(f.col[c]), Num(0))])

\* price columns forward filled, volume filled with 0, all else untouched
HandleMissingValues(f) ==
    WithCols(f, [c \in Columns(f) \cap NumericColumns |->
                    IF c \in PriceColumns THEN Ffill(f.col[c])
                    ELSE Fillna(f.col[c], Num(0))])

Sma(close, w) == RollingMean(close, w)

\* delta.where(delta > 0, 0) and -delta.where(delta < 0, 0): a cell where the
\* condition is false -- the missing first delta included -- becomes 0
Gain(close) ==
    LET delta == Diff(close)
    IN  [i \in 1..Len(close) |-> IF FGt(delta[i], Num(0)) THEN delta[i] ELSE Num(0)]

\* the loss without its minus sign
LossNotNegated(close) ==
    LET delta == Diff(close)
    IN  [i \in 1..Len(close) |-> IF FLt(delta[i], Num(0)) THEN delta[i] ELSE Num(0)]

Loss(close) ==
    LET delta == Diff(close)
    IN  [i \in 1..Len(close) |->
            FNeg(IF FLt(delta[i], Num(0)) THEN delta[i] ELSE Num(0))]

AvgGain(close) == RollingMean(Gain(close), RsiWindow)
AvgLoss(close) == RollingMean(Loss(close), RsiWindow)

\* rs = gain / loss ; rsi = 100 - (100 / (1 + rs))
Rsi(close) ==
    LET gain == AvgGain(close)
        loss == AvgLoss(close)
    IN  [i \in 1..Len(close) |->
            LET rs == FDiv(gain[i], loss[i])
            IN  FSub(Num(100), FDiv(Num(100), FAdd(Num(1), rs)))]

\* exp1 + exp2
MacdSum(close) ==
    LET exp1 == Ewm(close, MacdFast)
        exp2 == Ewm(close, MacdSlow)
    IN  [i \in 1..Len(close) |-> FAdd(exp1[i], exp2[i])]

Macd(close) ==
    LET exp1 == Ewm(close, MacdFast)
        exp2 == Ewm(close, MacdSlow)
    IN  [i \in 1..Len(close) |-> FSub(exp1[i], exp2[i])]

MacdSignalLine(close) == Ewm(Macd(close), MacdSignal)

MacdHistogram(close) ==
    LET m == Macd(close)
        g == MacdSignalLine(close)
    IN  [i \in 1..Len(close) |-> FSub(m[i], g[i])]

\* processor.py: sma_20, sma_50, sma_200, rsi_14, macd, macd_signal,
\* macd_histogram are added to the frame
CalculateTechnicalIndicators(f) ==
    LET close == f.col["close"]
    IN  WithCols(f, [sma_20 |-> Sma(close, 20),
                     sma_50 |-> Sma(close, 50),
                     sma_200 |-> Sma(close, 200),
                     rsi_14 |-> Rsi(close),
                     macd |-> Macd(close),
                     macd_signal |-> MacdSignalLine(close),
                     macd_histogram |-> MacdHistogram(close)])

\* financial_pipeline.py: only SMA_20 and RSI are added (the model keeps the
\* names sma_20 and rsi_14 for them)
DagCalculateTechnicalIndicators(f) ==
    LET close == f.col["close"]
    IN  WithCols(f, [sma_20 |-> Sma(close, 20), rsi_14 |-> Rsi(close)])

\* .dt.tz_convert('UTC'): a naive column raises TypeError; an aware one keeps
\* its instants and shows them on the UTC clock
TzConvertUtc(f) ==
    [f EXCEPT !.tz = "UTC",
              !.col = [c \in Columns(f) |->
                          IF c = "timestamp"
                          THEN [i \in 1..Len(f.col[c]) |-> f.col[c][i] - UtcOffset(f.tz)]
                          ELSE f.col[c]]]

\* .dt.tz_localize('UTC'): an aware column raises TypeError; a naive one is
\* labelled UTC with its wall-clock values unchanged
TzLocalizeUtc(f) == [f EXCEPT !.tz = "UTC"]

\* processor.py process_data from the gap-filled table on: the indicators,
\* then normalize_data; what the caller gets is the error raised or the table
ProcessTail(f) ==
    IF f.tz = "none"
    THEN [error |-> "TypeError", frame |-> CalculateTechnicalIndicators(f)]
    ELSE [error |-> "none", frame |-> TzConvertUtc(CalculateTechnicalIndicators(f))]

\* financial_pipeline.py process_data from the gap-filled table on:
\* normalize_timezone, then the indicators
DagProcessTail(f) ==
    IF f.tz # "none"
    THEN [error |-> "TypeError", frame |-> f]
    ELSE IF ~f.numeric
    THEN [error |-> "DataError", frame |-> TzLocalizeUtc(f)]
    ELSE [error |-> "none", frame |-> DagCalculateTechnicalIndicators(TzLocalizeUtc(f))]

----------------------------------------------------------------------------
(* PipelineMonitor.check_data_quality of financial_pipeline.py.            *)

\* percentage above which missing values are reported
MissingThreshold == 5
\* z-score above which a price is an anomaly
ZThreshold == 3

\* number of missing cells of a column; timestamps are never missing here
NullCount(f, c) ==
    IF c = "timestamp" THEN 0
    ELSE Cardinality({i \in 1..Len(f.col[c]) : IsNaN(f.col[c][i])})

\* df.isnull().mean() * 100 of one column; the mean of no rows is NaN
MissingPct(f, c) ==
    IF Len(f.col[c]) = 0 THEN NaN
    ELSE Frac(100 * NullCount(f, c), Len(f.col[c]))

\* missing_pct.max(): the largest percentage, NaN values skipped
MaxMissingPct(f) ==
    LET vals == {MissingPct(f, c) : c \in Columns(f)} \ {NaN}
    IN  IF vals = {} THEN NaN
        ELSE CHOOSE v \in vals : \A w \in vals : FLe(w, v)

\* missing_pct.max() >= 5
HighMissingInclusive(f) ==
    LET m == MaxMissingPct(f) IN FGt(m, Num(MissingThreshold)) \/ m = Num(MissingThreshold)

\* missing_pct.max() > 5
HighMissing(f) == FGt(MaxMissingPct(f), Num(MissingThreshold))

\* a value equal to the one in the row just before it
DuplicatedAdjacent(s) == \E i \in 2..Len(s) : s[i] = s[i - 1]

\* Series.duplicated().any(): some value occurs again in a later row
DuplicatedAny(s) == \E i, j \in 1..Len(s) : i < j /\ s[i] = s[j]

\* Series.mean(): missing cells skipped, NaN when nothing is left
Mean(s) ==
    LET nobs == Cardinality({i \in 1..Len(s) : ~IsNaN(s[i])})
    IN  IF nobs = 0 THEN NaN ELSE FDiv(SumObs(s, 1, Len(s)), Num(nobs))

\* square of Series.std(): sample variance (ddof = 1) of the cells that are
\* not missing, NaN with fewer than two of them
Variance(s) ==
    LET nobs == Cardinality({i \in 1..Len(s) : ~IsNaN(s[i])})
        m    == Mean(s)
        sq   == [i \in 1..Len(s) |->
                    IF IsNaN(s[i]) THEN NaN
                    ELSE FMul(FSub(s[i], m), FSub(s[i], m))]
    IN  IF nobs < 2 THEN NaN ELSE FDiv(SumObs(sq, 1, Len(s)), Num(nobs - 1))

\* abs((x - mean) / std) > ZThreshold, decided without the square root as
\* (x - mean)^2 / ZThreshold^2 > std^2.  A constant column has std = 0 and
\* x = mean, so its z-score is 0/0 = NaN; with fewer than two values std is
\* NaN; a comparison with NaN is false.
ZScoreExceeds(x, m, var) ==
    LET dev == FSub(x, m)
        lhs == FDiv(FMul(dev, dev), Num(ZThreshold * ZThreshold))
    IN  /\ IsFinite(lhs) /\ IsFinite(var)
        /\ var.n > 0
        /\ RatGt(lhs.n, lhs.d, var.n, var.d)

\* (zscore > 3).any()
HasAnomaly(s) ==
    LET m   == Mean(s)
        var == Variance(s)
    IN  \E i \in 1..Len(s) : ZScoreExceeds(s[i], m, var)

Issue(k, c, p) == [kind |-> k, col |-> c, pct |-> p]

MissingIssue(f) ==
    IF HighMissing(f) THEN <<Issue("missing", "", MaxMissingPct(f))>> ELSE <<>>

DuplicateIssue(f) ==
    IF DuplicatedAny(f.col["timestamp"]) THEN <<Issue("duplicate", "", NaN)>> ELSE <<>>

AnomalyIssue(f, c) ==
    IF HasAnomaly(f.col[c]) THEN <<Issue("anomaly", c, NaN)>> ELSE <<>>

\* the checks stop at the first issue found
CheckDataQualityFirstOnly(f) ==
    LET all == MissingIssue(f) \o DuplicateIssue(f)
                  \o AnomalyIssue(f, "open") \o AnomalyIssue(f, "high")
                  \o AnomalyIssue(f, "low") \o AnomalyIssue(f, "close")
    IN  IF all = <<>> THEN <<>> ELSE <<all[1]>>

\* the issues list that check_data_quality returns
CheckDataQuality(f) ==
    MissingIssue(f) \o DuplicateIssue(f)
       \o AnomalyIssue(f, "open") \o AnomalyIssue(f, "high")
       \o AnomalyIssue(f, "low") \o AnomalyIssue(f, "close")

\* a missing column raises, and so does any finding
CheckRaisesOnIssues(f) ==
    \/ ~(({"timestamp"} \cup PriceColumns) \subseteq Columns(f))
    \/ CheckDataQuality(f) # <<>>

\* a missing column raises, and so does a price column whose std is zero or
\* undefined, as a plain division by it would
CheckRaisesOnZeroStd(f) ==
    \/ ~(({"timestamp"} \cup PriceColumns) \subseteq Columns(f))
    \/ \E c \in PriceColumns \cap Columns(f) :
          LET v == Variance(f.col[c]) IN IsNaN(v) \/ v = Num(0)

\* df['Date'] and df[col] raise KeyError on a frame without the column
CheckRaises(f) == ~(({"timestamp"} \cup PriceColumns) \subseteq Columns(f))

----------------------------------------------------------------------------
(* Provider tables the pipeline is run on.                                 *)

Bar(o, h, l, c, v) == [open |-> o, high |-> h, low |-> l, close |-> c, volume |-> v]

SampleBars ==
    { Bar(Num(1), Num(3), Num(1), Num(2), Num(10)),
      Bar(Num(2), Num(4), Num(2), Num(3), Num(20)),
      Bar(Num(2), Num(3), Num(1), NaN,    Num(30)),
      Bar(NaN,    NaN,    NaN,    NaN,    Num(40)),
      Bar(Num(3), Num(4), Num(2), Num(3), NaN),
      Bar(Num(3), Num(2), Num(4), Num(3), Num(0)) }

\* one bar per day
BuildFrame(bars, z) ==
    [tz  |-> z,
     numeric |-> TRUE,
     col |-> [c \in RequiredColumns |->
                 IF c = "timestamp" THEN [i \in 1..Len(bars) |-> 24 * i]
                 ELSE [i \in 1..Len(bars) |-> bars[i][c]]]]

DropColumns(f, dropped) ==
    [f EXCEPT !.col = [c \in Columns(f) \ dropped |-> f.col[c]]]

ClosePatterns == {"up", "down", "flat", "zig", "gap", "step", "dip"}

CloseAt(p, len, i) ==
    CASE p = "up"   -> Num(i)
      [] p = "down" -> Num(len + 1 - i)
      [] p = "flat" -> Num(5)
      [] p = "zig"  -> Num(10 + ((i * i) % 7))
      [] p = "gap"  -> IF i = 1 THEN NaN ELSE Num(i)
      [] p = "step" -> IF i = len THEN Num(6) ELSE Num(5)
      [] p = "dip"  -> IF i = len THEN Num(4) ELSE Num(5)

PatternBars(p, len) ==
    [i \in 1..len |->
        LET c == CloseAt(p, len, i) IN Bar(c, c, c, c, Num(100))]

\* lengths around the point where each moving average becomes defined
WindowLens == UNION {{w - 1, w, w + 1} : w \in SmaWindows}

ShortFrames ==
    { DropColumns(BuildFrame(bars, z), d) :
        bars \in UNION {[1..k -> SampleBars] : k \in 0..MaxLen},
        z \in Zones,
        d \in {x \in SUBSET RequiredColumns : Cardinality(x) <= MaxDropped} }

LongFrames ==
    { BuildFrame(PatternBars(p, len), z) :
        p \in ClosePatterns, len \in (1..MaxLong) \cup WindowLens, z \in Zones }

\* number of rows at which the EMAs of a close column do arithmetic: the rows
\* from the first change of value on
EmaSteps(close) ==
    LET s  == Ffill(close)
        ch == {i \in 2..Len(s) : ~IsNaN(s[i - 1]) /\ s[i] # s[i - 1]}
    IN  IF ch = {} THEN 0
        ELSE Len(s) + 1 - (CHOOSE i \in ch : \A j \in ch : i <= j)

\* tables whose price and volume columns hold text that is not a number
ObjectFrames ==
    { [BuildFrame(bars, z) EXCEPT !.numeric = FALSE] :
        bars \in UNION {[1..k -> SampleBars] : k \in 1..MaxLen}, z \in Zones }

TimestampShapes == {"distinct", "repeat", "wrap"}

\* one timestamp per day; the last row repeats the day before it ("repeat")
\* or the first day ("wrap")
Timestamps(shape, len) ==
    [i \in 1..len |->
        IF i = len /\ len >= 2 /\ shape = "repeat" THEN 24 * (i - 1)
        ELSE IF i = len /\ len >= 2 /\ shape = "wrap" THEN 24
        ELSE 24 * i]

Stamp(f, shape) ==
    [f EXCEPT !.col["timestamp"] = Timestamps(shape, Len(@))]

\* a complete bar, one with the close missing, one with every price missing
MonitorBars ==
    { Bar(Num(1), Num(3), Num(1), Num(2), Num(10)),
      Bar(Num(2), Num(3), Num(1), NaN,    Num(30)),
      Bar(NaN,    NaN,    NaN,    NaN,    Num(40)) }

DupFrames ==
    { DropColumns(Stamp(BuildFrame(bars, "none"), sh), d) :
        bars \in UNION {[1..k -> MonitorBars] : k \in 0..MaxLen},
        sh \in TimestampShapes,
        d \in {x \in SUBSET RequiredColumns : Cardinality(x) <= MaxDropped} }

\* sample_stock_data of tests/confest.py, ten daily bars, and the bad_data of
\* tests/test_monitoring.py: the first close set to ten times the largest
FixtureBars(bad) ==
    [i \in 1..10 |->
        Bar(Num(100 + (i - 1)), Num(105 + (i - 1)), Num(95 + (i - 1)),
            IF bad /\ i = 1 THEN Num((102 + 9) * 10) ELSE Num(102 + (i - 1)),
            Num(1000000 + (i - 1) * 1000))]

FixtureFrames == { BuildFrame(FixtureBars(bad), "none") : bad \in BOOLEAN }

\* a close hovering around 100 that ends on a tenfold spike
SpikeBars(len) ==
    [i \in 1..len |->
        LET c == IF i = len THEN Num(1000)
                 ELSE IF i % 3 = 1 THEN Num(100)
                 ELSE IF i % 3 = 2 THEN Num(101)
                 ELSE Num(99)
        IN  Bar(Num(100), Num(100), Num(100), c, Num(100))]

SpikeFrames == { BuildFrame(SpikeBars(len), "none") : len \in 2..MaxLong }

\* flat prices with the first k bars of the columns in cols twice as high
OutlierBars(len, cols, k) ==
    [i \in 1..len |->
        LET v(c) == IF c \in cols /\ i <= k THEN Num(20) ELSE Num(10)
        IN  Bar(v("open"), v("high"), v("low"), v("close"), Num(100))]

OutlierFrames ==
    { Stamp(BuildFrame(OutlierBars(len, cols, k), "none"), sh) :
        len \in 2..MaxLong, cols \in SUBSET PriceColumns, k \in 1..2,
        sh \in {"distinct", "repeat"} }

\* k missing cells in one column, from the second bar on
NullBars(len, c, k) ==
    [i \in 1..len |->
        LET b == Bar(Num(10), Num(10), Num(10), Num(10), Num(100))
        IN  IF i >= 2 /\ i <= k + 1 THEN [b EXCEPT ![c] = NaN] ELSE b]

\* table lengths around the one where a single missing cell is exactly the
\* threshold percentage
NullLens == ((100 \div MissingThreshold) - 1)..((100 \div MissingThreshold) + 1)

NullFrames ==
    { BuildFrame(NullBars(len, c, k), "none") :
        len \in NullLens, c \in {"close", "volume"}, k \in 0..2 }

\* a month of daily bars with two closes missing and the last day repeated
GapBars(len, gaps) ==
    [i \in 1..len |->
        LET c == Num(10 + ((i * i) % 7))
        IN  Bar(c, c, c, IF i \in gaps THEN NaN ELSE c, Num(100))]

GapFrames ==
    { Stamp(BuildFrame(GapBars(MaxLong, gaps), "none"), "repeat") :
        gaps \in {g \in SUBSET {1, 2, 10, MaxLong} : Cardinality(g) = 2} }

Impls == {"processor", "dag"}

----------------------------------------------------------------------------
(* The two RateLimiter classes.                                            *)

\* most calls per period a limiter under test allows
MaxCalls == 2
\* longest period of a limiter under test, in ticks
MaxPeriod == 3
\* last tick at which the clock is still advanced by itself
MaxClock == 6
\* most calls made on a limiter
MaxHistory == 5

\* RateLimiter(calls, period) after construction
RateLimiter(calls, period) ==
    [calls |-> calls, period |-> period, timestamps |-> <<>>]

\* the list is kept while a timestamp is at most one period old
FreshInclusive(ts, now, period) == SelectSeq(ts, LAMBDA t : now - t <= period)

\* financial_pipeline.py can_proceed: the timestamps less than one period old
Fresh(ts, now, period) == SelectSeq(ts, LAMBDA t : now - t < period)

\* financial_pipeline.py can_proceed at time now: the answer and the limiter
\* after the call
CanProceed(l, now) ==
    LET kept == Fresh(l.timestamps, now, l.period)
    IN  IF Len(kept) < l.calls
        THEN [granted |-> TRUE, limiter |-> [l EXCEPT !.timestamps = Append(kept, now)]]
        ELSE [granted |-> FALSE, limiter |-> [l EXCEPT !.timestamps = kept]]

\* utils/rate_limiter.py: popleft while the oldest timestamp is a period old
RECURSIVE PopExpired(_, _, _)
PopExpired(ts, now, period) ==
    IF ts # <<>> /\ now - Head(ts) >= period
    THEN PopExpired(Tail(ts), now, period)
    ELSE ts

\* utils/rate_limiter.py wait_if_needed entered at time now: the time at which
\* it returns and the limiter after the call; the timestamp appended is the
\* time of entry, read before the sleep
WaitIfNeeded(l, now) ==
    LET kept       == PopExpired(l.timestamps, now, l.period)
        sleep_time == IF Len(kept) >= l.calls
                      THEN kept[1] + l.period - now
                      ELSE 0
    IN  [returned |-> IF sleep_time > 0 THEN now + sleep_time ELSE now,
         limiter  |-> [l EXCEPT !.timestamps = Append(kept, now)]]

LimiterImpls == {"limiter", "utility_limiter"}

\* no limiter is exercised
NoLimiter ==
    /\ clock = 0
    /\ limiter = RateLimiter(1, 1)
    /\ history = <<>>

----------------------------------------------------------------------------
(* MetricsCollector and the DAG of financial_timeseries_dag.py.            *)

\* retries of default_args: a task is run at most Retries + 1 times
Retries == 3
\* retry_delay of default_args, in minutes (the tick of the workflow clock)
RetryDelay == 5
\* most attempts, over all tasks of a run, that end in an exception
MaxFailures == 4
\* most end_operation calls made with an id that was never started
MaxStray == 1

\* config['pipeline']['symbols']
Symbols == {"AAPL", "MSFT"}

Operations == {"collect_data", "process_data", "store_data"}

\* f"{operation}_{symbol}_{timestamp}": no operation name is the beginning of
\* another and a timestamp holds no underscore, so two ids are equal exactly
\* when the three parts are
OperationIdNoTimestamp(op, s, t) == <<op, s, 0>>

OperationId(op, s, t) == <<op, s, t>>

\* MetricsCollector.start_operation at time t: the entry of the id is set
\* (again, if the id exists) to a started operation
StartOperation(m, op, s, t) ==
    LET id == OperationId(op, s, t)
    IN  [x \in DOMAIN m \cup {id} |->
            IF x = id
            THEN [operation |-> op, symbol |-> s, start_time |-> t,
                  end_time |-> -1, duration |-> -1,
                  status |-> "started", error |-> "None"]
            ELSE m[x]]

\* MetricsCollector.end_operation at time t (end_time and duration are -1
\* and error is "None" while the keys are absent or None)
EndOperation(m, id, success, err, t) ==
    IF id \in DOMAIN m
    THEN [m EXCEPT ![id] = [@ EXCEPT !.end_time = t,
                                     !.duration = t - m[id].start_time,
                                     !.status = IF success THEN "success" ELSE "error",
                                     !.error = err]]
    ELSE m

\* the tasks generate_dag creates
InitializeTask == <<"initialize_components", "">>
Task(op, s) == <<op, s>>
EmptyTasks == {<<"start_pipeline", "">>, <<"end_pipeline", "">>}
TaskIds == EmptyTasks \cup {InitializeTask} \cup {Task(op, s) : op \in Operations, s \in Symbols}

\* every group waits for the group of the symbol before it as well
UpstreamChained(t) ==
    IF t[1] = "collect_data"
    THEN {InitializeTask} \cup {Task("store_data", s) : s \in {x \in Symbols : x = "AAPL" /\ t[2] # x}}
    ELSE IF t[1] = "process_data" THEN {Task("collect_data", t[2])}
    ELSE IF t[1] = "store_data" THEN {Task("process_data", t[2])}
    ELSE {}

\* collect_data >> process_data >> store_data inside the group of a symbol,
\* initialize_components >> symbol_group; the final dependencies on
\* start_pipeline and end_pipeline are commented out
Upstream(t) ==
    IF t[1] = "collect_data" THEN {InitializeTask}
    ELSE IF t[1] = "process_data" THEN {Task("collect_data", t[2])}
    ELSE IF t[1] = "store_data" THEN {Task("process_data", t[2])}
    ELSE {}

\* a task instance before its first run
NewTask == [state |-> "none", try_number |-> 0, next_try |-> 0, operation_id |-> <<>>]

\* trigger rule all_success: the task has not run, or waits for a retry whose
\* delay is over, and every task upstream of it has succeeded
Runnable(t) ==
    /\ \/ tasks[t].state = "none"
       \/ tasks[t].state = "up_for_retry" /\ clock >= tasks[t].next_try
    /\ \A u \in Upstream(t) : tasks[u].state = "success"

\* attempts of a task that ended in an exception
FailedAttempts(t) ==
    IF tasks[t].state \in {"running", "success"}
    THEN tasks[t].try_number - 1
    ELSE tasks[t].try_number

RECURSIVE SumFailures(_)
SumFailures(T) ==
    IF T = {} THEN 0
    ELSE LET t == CHOOSE x \in T : TRUE
         IN  FailedAttempts(t) + SumFailures(T \ {t})

\* the state of a task whose attempt raised: up for retry while retries are
\* left, failed after the last one
AfterFailure(t) ==
    [tasks[t] EXCEPT !.state = IF tasks[t].try_number <= Retries
                               THEN "up_for_retry" ELSE "failed",
                     !.next_try = clock + RetryDelay]

\* str(e) of the exception the wrapped call raises
CallError(op) ==
    IF op = "collect_data" THEN "ConnectionError"
    ELSE IF op = "process_data" THEN "TypeError"
    ELSE "WriteError"

\* no workflow is scheduled
NoWorkflow ==
    /\ tasks = <<>>
    /\ metrics = <<>>

\* no table is processed
NoFrame == BuildFrame(<<>>, "none")

----------------------------------------------------------------------------
(* process_data of the two processors and run of the pipeline, one action  *)
(* per step.                                                               *)

Start ==
    /\ raw = df
    /\ pc = "start"
    /\ error = "none"
    /\ coerced = FALSE
    /\ log = <<>>
    /\ issues = <<>>
    /\ trace = <<>>
    /\ stored = <<>>

Init ==
    /\ impl \in Impls
    /\ \/ df \in ShortFrames \cup LongFrames
       \/ df \in ObjectFrames
    /\ impl = "processor" /\ "close" \in Columns(df)
          => EmaSteps(df.col["close"]) <= MaxEmaSteps
    /\ Start
    /\ NoLimiter
    /\ NoWorkflow

\* the monitor by itself or the whole run, on tables that exercise the checks
InitQuality ==
    /\ impl \in {"dag", "monitor"}
    /\ \/ df \in DupFrames
       \/ df \in FixtureFrames \cup SpikeFrames
       \/ df \in OutlierFrames
       \/ df \in NullFrames \cup GapFrames
    /\ Start
    /\ NoLimiter
    /\ NoWorkflow

\* the exception is logged and swallowed: the caller goes on as if
\* process_data had returned the frame
RaiseSwallowed(e) ==
    /\ pc' = "done"
    /\ error' = e
    /\ log' = IF impl = "monitor" THEN log ELSE Append(log, "error")

\* an exception leaves process_data or run: logged (processor.py 23-25,
\* financial_pipeline.py 260-262) and re-raised
Raise(e) ==
    /\ pc' = "failed"
    /\ error' = e
    /\ log' = IF impl = "monitor" THEN log ELSE Append(log, "error")

\* processor.py validate_data
validate_data ==
    /\ impl = "processor" /\ pc = "start"
    /\ trace' = Append(trace, "validate_data")
    /\ IF MissingColumns(df) # {}
       THEN /\ Raise("ValueError")
            /\ UNCHANGED <<df, coerced>>
       ELSE IF ~df.numeric
       THEN /\ Raise("ValueError")
            /\ coerced' = TRUE
            /\ UNCHANGED df
       ELSE /\ coerced' = TRUE
            /\ df' = df
            /\ log' = IF InvalidPrices(df) # {} THEN Append(log, "warning") ELSE log
            /\ pc' = "validated"
            /\ UNCHANGED error
    /\ UNCHANGED <<impl, raw, issues, stored>>
    /\ UNCHANGED services

\* processor.py handle_missing_values
handle_missing_values ==
    /\ impl = "processor" /\ pc = "validated"
    /\ trace' = Append(trace, "handle_missing_values")
    /\ df' = HandleMissingValues(df)
    /\ pc' = "filled"
    /\ UNCHANGED <<impl, raw, error, coerced, log, issues, stored>>
    /\ UNCHANGED services

\* processor.py calculate_technical_indicators
calculate_technical_indicators ==
    /\ impl = "processor" /\ pc = "filled"
    /\ trace' = Append(trace, "calculate_technical_indicators")
    /\ df' = CalculateTechnicalIndicators(df)
    /\ pc' = "indicators"
    /\ UNCHANGED <<impl, raw, error, coerced, log, issues, stored>>
    /\ UNCHANGED services

\* processor.py normalize_data, the last step of process_data
normalize_data ==
    /\ impl = "processor" /\ pc = "indicators"
    /\ trace' = Append(trace, "normalize_data")
    /\ IF df.tz = "none"
       THEN /\ Raise("TypeError")
            /\ UNCHANGED df
       ELSE /\ df' = TzConvertUtc(df)
            /\ pc' = "done"
            /\ UNCHANGED <<error, log>>
    /\ UNCHANGED <<impl, raw, coerced, issues, stored>>
    /\ UNCHANGED services

\* financial_pipeline.py validate_data
dag_validate_data ==
    /\ impl = "dag" /\ pc = "start"
    /\ trace' = Append(trace, "validate_data")
    /\ IF MissingColumns(df) # {}
       THEN Raise("ValueError")
       ELSE /\ pc' = "validated"
            /\ UNCHANGED <<error, log>>
    /\ UNCHANGED <<impl, df, raw, coerced, issues, stored>>
    /\ UNCHANGED services

\* financial_pipeline.py handle_missing_values
dag_handle_missing_values ==
    /\ impl = "dag" /\ pc = "validated"
    /\ trace' = Append(trace, "handle_missing_values")
    /\ df' = HandleMissingValues(df)
    /\ pc' = "filled"
    /\ UNCHANGED <<impl, raw, error, coerced, log, issues, stored>>
    /\ UNCHANGED services

\* financial_pipeline.py normalize_timezone
dag_normalize_timezone ==
    /\ impl = "dag" /\ pc = "filled"
    /\ trace' = Append(trace, "normalize_timezone")
    /\ IF df.tz # "none"
       THEN /\ Raise("TypeError")
            /\ UNCHANGED df
       ELSE /\ df' = TzLocalizeUtc(df)
            /\ pc' = "normalized"
            /\ UNCHANGED <<error, log>>
    /\ UNCHANGED <<impl, raw, coerced, issues, stored>>
    /\ UNCHANGED services

\* financial_pipeline.py calculate_technical_indicators, the last step of
\* process_data; rolling() of a column of text raises DataError
dag_calculate_technical_indicators ==
    /\ impl = "dag" /\ pc = "normalized"
    /\ trace' = Append(trace, "calculate_technical_indicators")
    /\ IF ~df.numeric
       THEN /\ Raise("DataError")
            /\ UNCHANGED df
       ELSE /\ df' = DagCalculateTechnicalIndicators(df)
            /\ pc' = "done"
            /\ UNCHANGED <<error, log>>
    /\ UNCHANGED <<impl, raw, coerced, issues, stored>>
    /\ UNCHANGED services

\* PipelineMonitor.check_data_quality: in run, on what process_data returned,
\* with one warning logged per issue; or called on a table by itself
check_data_quality ==
    /\ \/ impl = "dag" /\ pc = "done"
       \/ impl = "monitor" /\ pc = "start"
    /\ trace' = Append(trace, "check_data_quality")
    /\ IF CheckRaises(df)
       THEN /\ Raise("KeyError")
            /\ UNCHANGED issues
       ELSE /\ issues' = CheckDataQuality(df)
            /\ log' = IF impl = "dag"
                      THEN log \o [i \in 1..Len(CheckDataQuality(df)) |-> "warning"]
                      ELSE log
            /\ pc' = "checked"
            /\ UNCHANGED error
    /\ UNCHANGED <<impl, df, raw, coerced, stored>>
    /\ UNCHANGED services

\* DataStorage.store_data: the write to InfluxDB succeeds or raises
store_data ==
    /\ impl = "dag" /\ pc = "checked"
    /\ trace' = Append(trace, "store_data")
    /\ \/ /\ stored' = Append(stored, df)
          /\ pc' = "stored"
          /\ UNCHANGED <<error, log>>
       \/ /\ Raise("WriteError")
          /\ UNCHANGED stored
    /\ UNCHANGED <<impl, df, raw, coerced, issues>>
    /\ UNCHANGED services

\* PipelineMonitor.log_pipeline_metrics, the end of run
log_pipeline_metrics ==
    /\ impl = "dag" /\ pc = "stored"
    /\ trace' = Append(trace, "log_pipeline_metrics")
    /\ log' = Append(log, "info")
    /\ pc' = "finished"
    /\ UNCHANGED <<impl, df, raw, error, coerced, issues, stored>>
    /\ UNCHANGED services

Next ==
    \/ validate_data
    \/ handle_missing_values
    \/ calculate_technical_indicators
    \/ normalize_data
    \/ dag_validate_data
    \/ dag_handle_missing_values
    \/ dag_normalize_timezone
    \/ dag_calculate_technical_indicators
    \/ check_data_quality
    \/ store_data
    \/ log_pipeline_metrics

Spec == Init /\ [][Next]_vars

NextQuality ==
    \/ dag_validate_data
    \/ dag_handle_missing_values
    \/ dag_normalize_timezone
    \/ dag_calculate_technical_indicators
    \/ check_data_quality
    \/ store_data
    \/ log_pipeline_metrics

SpecQuality == InitQuality /\ [][NextQuality]_vars

----------------------------------------------------------------------------
(* Calls on a rate limiter at non-decreasing times.                        *)

\* a limiter just constructed, at time 0
InitLimiter ==
    /\ impl \in LimiterImpls
    /\ df = NoFrame
    /\ Start
    /\ clock = 0
    /\ limiter \in {RateLimiter(c, p) : c \in 1..MaxCalls, p \in 1..MaxPeriod}
    /\ history = <<>>
    /\ NoWorkflow

\* time passes between two calls (in wait_if_needed of
\* financial_pipeline.py: time.sleep(1) between two can_proceed)
tick ==
    /\ impl \in LimiterImpls
    /\ clock < MaxClock
    /\ clock' = clock + 1
    /\ UNCHANGED <<impl, df, raw, pc, error, coerced, log, issues, trace, stored>>
    /\ UNCHANGED <<limiter, history, tasks, metrics>>

\* financial_pipeline.py RateLimiter.can_proceed
can_proceed ==
    /\ impl = "limiter"
    /\ Len(history) < MaxHistory
    /\ LET r == CanProceed(limiter, clock)
       IN  /\ limiter' = r.limiter
           /\ history' = Append(history, [at |-> clock, granted |-> r.granted,
                                          returned |-> clock])
    /\ UNCHANGED <<impl, df, raw, pc, error, coerced, log, issues, trace, stored>>
    /\ UNCHANGED <<clock, tasks, metrics>>

\* utils/rate_limiter.py RateLimiter.wait_if_needed, one call after the
\* other: the clock is at the time of return when the call is over
utility_wait_if_needed ==
    /\ impl = "utility_limiter"
    /\ Len(history) < MaxHistory
    /\ LET r == WaitIfNeeded(limiter, clock)
       IN  /\ limiter' = r.limiter
           /\ clock' = r.returned
           /\ history' = Append(history, [at |-> clock, granted |-> TRUE,
                                          returned |-> r.returned])
    /\ UNCHANGED <<impl, df, raw, pc, error, coerced, log, issues, trace, stored>>
    /\ UNCHANGED <<tasks, metrics>>

NextLimiter ==
    \/ tick
    \/ can_proceed
    \/ utility_wait_if_needed

SpecLimiter == InitLimiter /\ [][NextLimiter]_vars

----------------------------------------------------------------------------
(* One run of the DAG: the scheduler starts tasks, the tasks record their  *)
(* operation in the MetricsCollector of initialize_components.             *)

\* history counts, for each operation id, the start_operation calls that
\* returned it and the end_operation calls made with it, and the
\* end_operation calls made with an id that no call had returned
Called(id) ==
    IF id \in DOMAIN history.calls
    THEN history.calls[id]
    ELSE [started |-> 0, ended |-> 0]

Record(id, call) ==
    [history EXCEPT !.calls =
        [x \in DOMAIN history.calls \cup {id} |->
            IF x = id
            THEN IF call = "start"
                 THEN [Called(id) EXCEPT !.started = @ + 1]
                 ELSE [Called(id) EXCEPT !.ended = @ + 1]
            ELSE history.calls[x]]]

\* the DAG run is created: no task has run, no operation is recorded
InitWorkflow ==
    /\ impl = "workflow"
    /\ df = NoFrame
    /\ Start
    /\ clock = 0
    /\ limiter = RateLimiter(1, 1)
    /\ history = [calls |-> <<>>, unknown |-> 0]
    /\ tasks = [t \in TaskIds |-> NewTask]
    /\ metrics = <<>>

Frames == <<df, raw, pc, error, coerced, log, issues, trace, stored>>

\* start_pipeline and end_pipeline: EmptyOperator tasks without
\* dependencies, which the scheduler marks successful without running them,
\* in the pass in which it schedules the first task
empty_operator ==
    /\ impl = "workflow"
    /\ \A t \in EmptyTasks : Runnable(t)
    /\ tasks' = [t \in TaskIds |->
                    IF t \in EmptyTasks
                    THEN [tasks[t] EXCEPT !.state = "success", !.try_number = 1]
                    ELSE tasks[t]]
    /\ UNCHANGED <<impl, clock, limiter, history, metrics>>
    /\ UNCHANGED Frames

\* _initialize_components: builds the components or raises
initialize_components ==
    /\ impl = "workflow"
    /\ \A t \in EmptyTasks : tasks[t].state = "success"
    /\ Runnable(InitializeTask)
    /\ LET run == [tasks EXCEPT ![InitializeTask].try_number = @ + 1]
       IN  \/ tasks' = [run EXCEPT ![InitializeTask].state = "success"]
           \/ /\ SumFailures(TaskIds) < MaxFailures
              /\ tasks' = [run EXCEPT ![InitializeTask].state =
                               IF run[InitializeTask].try_number <= Retries
                               THEN "up_for_retry" ELSE "failed",
                            ![InitializeTask].next_try = clock + RetryDelay]
    /\ UNCHANGED <<impl, clock, limiter, history, metrics>>
    /\ UNCHANGED Frames

\* a task callable up to the wrapped call: start_operation
Begin(op, s) ==
    /\ impl = "workflow"
    /\ Runnable(Task(op, s))
    /\ metrics' = StartOperation(metrics, op, s, clock)
    /\ history' = Record(OperationId(op, s, clock), "start")
    /\ tasks' = [tasks EXCEPT ![Task(op, s)] =
                    [@ EXCEPT !.state = "running",
                              !.try_number = @ + 1,
                              !.operation_id = OperationId(op, s, clock)]]
    /\ UNCHANGED <<impl, clock, limiter>>
    /\ UNCHANGED Frames

\* a task callable from the wrapped call on: it returns and the operation
\* ends with success, or it raises and the except clause ends the operation
\* with the error and raises AirflowException
Finish(op, s) ==
    /\ impl = "workflow"
    /\ tasks[Task(op, s)].state = "running"
    /\ \/ /\ metrics' = EndOperation(metrics, tasks[Task(op, s)].operation_id,
                                      TRUE, "None", clock)
          /\ tasks' = [tasks EXCEPT ![Task(op, s)].state = "success"]
       \/ /\ SumFailures(TaskIds) < MaxFailures
          /\ metrics' = EndOperation(metrics, tasks[Task(op, s)].operation_id,
                                      FALSE, CallError(op), clock)
          /\ tasks' = [tasks EXCEPT ![Task(op, s)] = AfterFailure(Task(op, s))]
    /\ history' = Record(tasks[Task(op, s)].operation_id, "end")
    /\ UNCHANGED <<impl, clock, limiter>>
    /\ UNCHANGED Frames

\* _collect_data
collect_data_start ==
    /\ impl = "workflow"
    /\ \E s \in Symbols : Begin("collect_data", s)
collect_data_end ==
    /\ impl = "workflow"
    /\ \E s \in Symbols : Finish("collect_data", s)

\* _process_data
process_data_start ==
    /\ impl = "workflow"
    /\ \E s \in Symbols : Begin("process_data", s)
process_data_end ==
    /\ impl = "workflow"
    /\ \E s \in Symbols : Finish("process_data", s)

\* _store_data
store_data_start ==
    /\ impl = "workflow"
    /\ \E s \in Symbols : Begin("store_data", s)
store_data_end ==
    /\ impl = "workflow"
    /\ \E s \in Symbols : Finish("store_data", s)

\* the scheduler gives up a task one of whose upstream tasks has failed
upstream_failed ==
    /\ impl = "workflow"
    /\ \E t \in TaskIds :
          /\ tasks[t].state = "none"
          /\ \E u \in Upstream(t) : tasks[u].state \in {"failed", "upstream_failed"}
          /\ tasks' = [tasks EXCEPT ![t].state = "upstream_failed"]
    /\ UNCHANGED <<impl, clock, limiter, history, metrics>>
    /\ UNCHANGED Frames

\* the retry delay of the task that has waited longest is over; the delay
\* is minutes long, so that by then the scheduler, which loops every few
\* seconds, has started what could start and those tasks have ended
retry_delay ==
    /\ impl = "workflow"
    /\ \A t \in TaskIds : ~Runnable(t) /\ tasks[t].state # "running"
    /\ \E t \in TaskIds :
          /\ tasks[t].state = "up_for_retry"
          /\ tasks[t].next_try > clock
          /\ \A u \in TaskIds :
                tasks[u].state = "up_for_retry" /\ tasks[u].next_try > clock
                    => tasks[t].next_try <= tasks[u].next_try
          /\ clock' = tasks[t].next_try
    /\ UNCHANGED <<impl, limiter, history, tasks, metrics>>
    /\ UNCHANGED Frames

\* end_operation called with an id that no start_operation has returned
end_unknown_operation ==
    /\ impl = "workflow"
    /\ history.unknown < MaxStray
    /\ \E op \in Operations, s \in Symbols, t \in 0..clock, ok \in BOOLEAN :
          LET id == <<op, s, t>>
          IN  /\ Called(id).started = 0
              /\ metrics' = EndOperation(metrics, id, ok,
                                          IF ok THEN "None" ELSE CallError(op), clock)
              /\ history' = [history EXCEPT !.unknown = @ + 1]
    /\ UNCHANGED <<impl, clock, limiter, tasks>>
    /\ UNCHANGED Frames

NextWorkflow ==
    \/ empty_operator
    \/ initialize_components
    \/ collect_data_start
    \/ collect_data_end
    \/ process_data_start
    \/ process_data_end
    \/ store_data_start
    \/ store_data_end
    \/ upstream_failed
    \/ retry_delay
    \/ end_unknown_operation

SpecWorkflow == InitWorkflow /\ [][NextWorkflow]_vars

TypeOK ==
    /\ impl \in Impls \cup {"monitor"} \cup LimiterImpls \cup {"workflow"}
    /\ clock \in Nat
    /\ limiter.calls \in 1..(MaxCalls + 1) /\ limiter.period \in 1..(MaxPeriod + 1)
    /\ \A i \in 1..Len(limiter.timestamps) : limiter.timestamps[i] <= clock
    /\ impl \in LimiterImpls => Len(history) <= MaxHistory
    /\ impl = "workflow" =>
          /\ \A t \in TaskIds :
                /\ tasks[t].state \in {"none", "running", "success", "up_for_retry",
                                       "failed", "upstream_failed"}
                /\ tasks[t].try_number \in 0..(Retries + 1)
          /\ \A id \in DOMAIN metrics :
                metrics[id].status \in {"started", "success", "error"}
    /\ pc \in {"start", "validated", "filled", "indicators", "normalized", "done",
               "checked", "stored", "finished", "failed"}
    /\ error \in {"none", "ValueError", "TypeError", "DataError", "KeyError", "WriteError"}
    /\ coerced \in BOOLEAN
    /\ df.tz \in Zones
    /\ df.numeric \in BOOLEAN
    /\ Len(stored) <= 1

----------------------------------------------------------------------------
(* Properties of gap filling.                                              *)

\* rows of s before row i that hold a value
ObsBefore(s, i) == {j \in 1..(i - 1) : ~IsNaN(s[j])}

Last(S) == CHOOSE j \in S : \A k \in S : k <= j

HasNull(s) == \E i \in 1..Len(s) : IsNaN(s[i])

NoNullsAfterFill ==
    pc = "filled" => \A c \in NumericColumns : ~HasNull(df.col[c])

\* C3: right after handle_missing_values every volume cell that was missing
\* is exactly 0, whatever precedes it, and every other volume cell is
\* unchanged.
VolumeFillZero ==
    pc = "filled" =>
        \A i \in 1..NRows(raw) :
            df.col["volume"][i] = IF IsNaN(raw.col["volume"][i]) THEN Num(0)
                                  ELSE raw.col["volume"][i]

\* a missing volume that follows a non-zero volume and became 0
VolumeFillWitness ==
    /\ pc = "filled"
    /\ \E i \in 2..NRows(raw) :
          /\ IsNaN(raw.col["volume"][i])
          /\ FGt(raw.col["volume"][i - 1], Num(0))
          /\ df.col["volume"][i] = Num(0)

\* C4: gap filling a gap-filled frame changes nothing, in any column or bar.
FillIdempotent ==
    pc = "filled" => HandleMissingValues(df) = df

\* a frame that the first fill did change, with a gap two bars long
FillIdempotentWitness ==
    /\ pc = "filled"
    /\ df # raw
    /\ \E i \in 2..(NRows(raw) - 1) :
          /\ ~IsNaN(raw.col["close"][i - 1])
          /\ IsNaN(raw.col["close"][i]) /\ IsNaN(raw.col["close"][i + 1])

----------------------------------------------------------------------------
(* Properties of the indicators.                                           *)

HasIndicators == "rsi_14" \in Columns(df)

\* s[lo] + ... + s[hi]
RECURSIVE WindowTotal(_, _, _)
WindowTotal(s, lo, hi) ==
    IF lo = hi THEN s[lo]
    ELSE LET mid == (lo + hi) \div 2
         IN  FAdd(WindowTotal(s, lo, mid), WindowTotal(s, mid + 1, hi))

\* arithmetic mean of s[lo..hi]; missing when a cell of the window is missing
WindowMean(s, lo, hi) ==
    IF \E j \in lo..hi : IsNaN(s[j]) THEN NaN
    ELSE FDiv(WindowTotal(s, lo, hi), Num(hi - lo + 1))

\* C5: for n in {20, 50, 200}, sma_n is undefined at the first n-1 bars and
\* at every later bar equals the arithmetic mean of the n closes ending at
\* that bar (a mean that is itself missing when one of those closes is).
SmaIsTrailingMean ==
    HasIndicators =>
        \A w \in SmaWindows : SmaColumn(w) \in Columns(df) =>
            \A i \in 1..NRows(df) :
                df.col[SmaColumn(w)][i] =
                    IF i < w THEN NaN
                    ELSE WindowMean(df.col["close"], i - w + 1, i)

\* all three averages defined at the last bar of a close column that is not
\* constant, and still undefined one bar before their windows fill
SmaWitness ==
    /\ HasIndicators /\ impl = "processor"
    /\ NRows(df) >= 200
    /\ df.col["close"][NRows(df)] # df.col["close"][1]
    /\ \A w \in SmaWindows :
          /\ IsFinite(df.col[SmaColumn(w)][NRows(df)])
          /\ IsNaN(df.col[SmaColumn(w)][w - 1])

\* C6: every bar at which rsi_14 is defined has 0 <= rsi_14 <= 100.
RsiInRange ==
    HasIndicators =>
        \A i \in 1..NRows(df) :
            LET r == df.col["rsi_14"][i]
            IN  ~IsNaN(r) => FLe(Num(0), r) /\ FLe(r, Num(100))

\* an rsi_14 strictly between the two ends of the range
RsiWitness ==
    /\ HasIndicators
    /\ \E i \in 1..NRows(df) :
          /\ FLt(Num(0), df.col["rsi_14"][i])
          /\ FLt(df.col["rsi_14"][i], Num(100))

\* C7: at every bar where the 14-period average loss is 0, rsi_14 is 100.
RsiHundredWhenNoLoss ==
    HasIndicators =>
        \A i \in 1..NRows(df) :
            AvgLoss(df.col["close"])[i] = Num(0) => df.col["rsi_14"][i] = Num(100)

\* C8: rsi_14 is undefined at the first 14 bars of every series.
RsiUndefinedFirst14 ==
    HasIndicators =>
        \A i \in 1..NRows(df) : i <= RsiWindow => IsNaN(df.col["rsi_14"][i])

\* the EMA recurrence ema[1] = s[1], ema[i] = a*s[i] + (1-a)*ema[i-1] over
\* rows lo..hi, given ema[lo-1]
RECURSIVE RecurrenceEmaRange(_, _, _, _, _)
RecurrenceEmaRange(s, span, lo, hi, before) ==
    LET a == Frac(2, span + 1)
    IN  IF hi < lo THEN <<>>
        ELSE IF lo = hi
        THEN <<IF lo = 1 THEN s[1]
               ELSE FAdd(FMul(a, s[lo]), FMul(FSub(Num(1), a), before))>>
        ELSE LET mid  == (lo + hi) \div 2
                 left == RecurrenceEmaRange(s, span, lo, mid, before)
             IN  left \o RecurrenceEmaRange(s, span, mid + 1, hi, left[Len(left)])

RecurrenceEma(s, span) == RecurrenceEmaRange(s, span, 1, Len(s), NaN)

ConstantClose(f) ==
    /\ NRows(f) >= 1
    /\ \A i \in 1..NRows(f) :
          ~IsNaN(f.col["close"][i]) /\ f.col["close"][i] = f.col["close"][1]

\* C9: when close is the same constant at every bar, macd, macd_signal and
\* macd_histogram are 0 at every bar from the first one; and whenever no
\* close is missing, the EMAs of spans 12, 26 and 9 behind them follow the
\* recurrence with a = 2/(span+1).
MacdZeroOnConstantClose ==
    "macd" \in Columns(df) =>
        /\ ConstantClose(df) =>
              \A i \in 1..NRows(df) :
                  /\ df.col["macd"][i] = Num(0)
                  /\ df.col["macd_signal"][i] = Num(0)
                  /\ df.col["macd_histogram"][i] = Num(0)
        /\ ~HasNull(df.col["close"]) =>
              LET fast   == RecurrenceEma(df.col["close"], 12)
                  slow   == RecurrenceEma(df.col["close"], 26)
                  signal == RecurrenceEma(df.col["macd"], 9)
              IN  \A i \in 1..NRows(df) :
                     /\ df.col["macd"][i] = FSub(fast[i], slow[i])
                     /\ df.col["macd_signal"][i] = signal[i]
                     /\ df.col["macd_histogram"][i] = FSub(df.col["macd"][i], signal[i])

\* a constant close over more bars than the slow span
MacdZeroWitness ==
    /\ "macd" \in Columns(df) /\ ConstantClose(df)
    /\ NRows(df) > MacdSlow
    /\ pc = "done"

----------------------------------------------------------------------------
(* Properties of validation.                                               *)

\* C10: validating a table that lacks a required column fails with the
\* missing-columns error before any coercion, whatever the other columns
\* hold: no frame is returned and the table is left as it was.
MissingColumnRejected ==
    ~(RequiredColumns \subseteq Columns(raw)) =>
        /\ pc \in {"start", "failed"}
        /\ pc = "failed" => error = "ValueError"
        /\ df = raw
        /\ ~coerced

\* the table of the unit test: close dropped, the other columns populated
MissingColumnWitness ==
    /\ pc = "failed" /\ error = "ValueError"
    /\ Columns(raw) = RequiredColumns \ {"close"}
    /\ NRows(raw) >= 2
    /\ ~HasNull(raw.col["open"])

----------------------------------------------------------------------------
(* Properties of the quality monitor.                                      *)

\* check_data_quality has just returned its report on df
Checked == pc = "checked"

IssuesOfKind(k) == {i \in 1..Len(issues) : issues[i].kind = k}

\* cells of column c of df that are missing
NullRows(c) ==
    IF c = "timestamp" THEN {}
    ELSE {i \in 1..NRows(df) : IsNaN(df.col[c][i])}

\* C11: whenever check_data_quality has returned, its report holds a
\* duplicate-timestamp issue exactly when two bars of the inspected series
\* share a timestamp, whatever else the series holds.
DuplicateReported ==
    Checked =>
        LET ts == df.col["timestamp"]
        IN  (IssuesOfKind("duplicate") # {})
               <=> (\E i, j \in 1..Len(ts) : i # j /\ ts[i] = ts[j])

\* the last of three bars repeats the first timestamp, a close is missing,
\* and the duplicate is reported
DuplicateWitness ==
    /\ Checked
    /\ NRows(df) = 3
    /\ df.col["timestamp"][3] = df.col["timestamp"][1]
    /\ df.col["timestamp"][2] # df.col["timestamp"][1]
    /\ NullRows("close") # {}
    /\ IssuesOfKind("duplicate") # {}

\* C12: check_data_quality reports a close anomaly for the ten closes
\* 100, 101, 99, 100, 101, 99, 100, 101, 99, 1000 and for the ten-bar test
\* table whose first close is set to ten times the largest close.
SpikeReported ==
    (Checked /\ df.col["close"] \in
                    { [i \in 1..10 |-> SpikeBars(10)[i]["close"]],
                      [i \in 1..10 |-> FixtureBars(TRUE)[i]["close"]] })
        => \E i \in IssuesOfKind("anomaly") : issues[i].col = "close"

\* C13: the report holds a missing-value issue exactly when some column of
\* the inspected series has more than 5 percent of its cells missing; there
\* is at most one such issue and it names the largest percentage of any
\* column.
MissingReported ==
    Checked =>
        LET n    == NRows(df)
            over == {c \in Columns(df) : 100 * Cardinality(NullRows(c)) > 5 * n}
        IN  /\ (IssuesOfKind("missing") # {}) <=> (over # {})
            /\ Cardinality(IssuesOfKind("missing")) <= 1
            /\ \A i \in IssuesOfKind("missing") :
                  LET p == issues[i].pct
                  IN  /\ IsFinite(p)
                      /\ \A c \in Columns(df) :
                            100 * Cardinality(NullRows(c)) * p.d <= p.n * n
                      /\ \E c \in Columns(df) :
                            100 * Cardinality(NullRows(c)) * p.d = p.n * n

\* the worst column misses exactly 5 percent (1 cell of 20) and nothing is
\* reported missing
MissingWitness ==
    /\ Checked
    /\ NRows(df) = 20
    /\ \E c \in Columns(df) : Cardinality(NullRows(c)) = 1
    /\ \A c \in Columns(df) : Cardinality(NullRows(c)) <= 1
    /\ IssuesOfKind("missing") = {}

\* position of an issue in the order missing, duplicate, open, high, low,
\* close
IssueRank(x) ==
    IF x.kind = "missing" THEN 1
    ELSE IF x.kind = "duplicate" THEN 2
    ELSE IF x.col = "open" THEN 3
    ELSE IF x.col = "high" THEN 4
    ELSE IF x.col = "low" THEN 5
    ELSE 6

\* rows of column c of df whose z-score is above 3
OffendingRows(c) ==
    LET s   == df.col[c]
        m   == Mean(s)
        var == Variance(s)
    IN  {i \in 1..Len(s) : ZScoreExceeds(s[i], m, var)}

\* C14: the report lists its findings in the order missing, duplicate, open,
\* high, low, close with no kind or column twice; a price column has its
\* anomaly issue exactly when one of its bars has a z-score above 3, and the
\* missing and duplicate findings are there whatever the other checks found.
FindingsAccumulate ==
    Checked =>
        /\ \A i, j \in 1..Len(issues) :
              i < j => IssueRank(issues[i]) < IssueRank(issues[j])
        /\ \A c \in PriceColumns :
              (\E i \in IssuesOfKind("anomaly") : issues[i].col = c)
                 <=> (OffendingRows(c) # {})
        /\ (IssuesOfKind("duplicate") # {})
              <=> DuplicatedAny(df.col["timestamp"])
        /\ (IssuesOfKind("missing") # {}) <=> HighMissing(df)
        /\ \A i \in IssuesOfKind("anomaly") : issues[i].col \in PriceColumns

\* missing values, a duplicate and anomalies in open and close at once, two
\* bars of close offending: four issues
AccumulateWitness ==
    /\ Checked
    /\ Len(issues) = 4
    /\ issues[1].kind = "missing" /\ issues[2].kind = "duplicate"
    /\ issues[3].col = "open" /\ issues[4].col = "close"
    /\ Cardinality(OffendingRows("close")) = 2

\* C15: a call of check_data_quality leaves the series as it was and, on a
\* series that has the timestamp and the four price columns, returns a
\* report instead of raising.
PureInspection ==
    [][check_data_quality =>
          /\ df' = df
          /\ (({"timestamp"} \cup PriceColumns) \subseteq Columns(df))
                => pc' = "checked" /\ error' = "none"]_vars

\* the monitor has returned a report on a single bar (undefined std) that
\* holds nulls, untouched
PureInspectionWitness ==
    /\ impl = "monitor" /\ Checked
    /\ NRows(df) = 1
    /\ NullRows("close") # {}
    /\ df = raw
    /\ error = "none"

----------------------------------------------------------------------------
(* Properties of the orchestration.                                        *)

\* place of a step in the order validate, fill, (normalize, indicators),
\* quality check, storage, metrics
StepRank(s) ==
    IF s = "validate_data" THEN 1
    ELSE IF s = "handle_missing_values" THEN 2
    ELSE IF s \in {"normalize_data", "normalize_timezone",
                   "calculate_technical_indicators"} THEN 3
    ELSE IF s = "check_data_quality" THEN 4
    ELSE IF s = "store_data" THEN 5
    ELSE 6

StepsOf(i) ==
    IF i = "processor"
    THEN {"validate_data", "handle_missing_values",
          "calculate_technical_indicators", "normalize_data"}
    ELSE IF i = "dag"
    THEN {"validate_data", "handle_missing_values", "normalize_timezone",
          "calculate_technical_indicators", "check_data_quality",
          "store_data", "log_pipeline_metrics"}
    ELSE {"check_data_quality"}

\* the step entered last, "" before the first
LastStep == IF trace = <<>> THEN "" ELSE trace[Len(trace)]

\* the steps entered so far respect the order, each after every step that
\* comes before it, and a failure carries its error and has stored nothing
OrderedSoFar ==
    /\ \A i, j \in 1..Len(trace) :
          i < j => /\ trace[i] # trace[j]
                   /\ StepRank(trace[i]) <= StepRank(trace[j])
    /\ \A j \in 1..Len(trace) :
          /\ trace[j] \in StepsOf(impl)
          /\ \A s \in StepsOf(impl) :
                StepRank(s) < StepRank(trace[j]) => \E i \in 1..(j - 1) : trace[i] = s
    /\ (pc = "failed") <=> (error # "none")
    /\ pc = "failed" =>
          /\ trace # <<>>
          /\ stored = <<>>
          /\ LastStep = "validate_data" => error = "ValueError"
          /\ LastStep = "calculate_technical_indicators" => error = "DataError"
          /\ LastStep # "store_data" => "store_data" \notin {trace[i] : i \in 1..Len(trace)}

\* C16: the steps of a run execute in the order validate, fill, then
\* normalize and indicators, then quality check, then storage, each only
\* after all earlier ones; once a step has failed no step runs any more,
\* nothing was stored and the error of that step is the one the caller gets.
RunOrder == []OrderedSoFar /\ [][pc # "failed"]_vars

\* process_data of the pipeline failed in calculate_technical_indicators on
\* a table of text: the run stopped there
RunOrderWitness ==
    /\ impl = "dag" /\ pc = "failed"
    /\ LastStep = "calculate_technical_indicators"
    /\ error = "DataError"
    /\ Len(trace) = 4
    /\ stored = <<>>

LowAboveHighRows ==
    {i \in 1..NRows(raw) : FGt(raw.col["low"][i], raw.col["high"][i])}

\* C18: when processor.py has validated a table holding a bar with low above
\* high, validation returned normally, every row is where and what it was,
\* and the violation left one warning in the log.
LowAboveHighPasses ==
    (impl = "processor" /\ pc = "validated" /\ LowAboveHighRows # {}) =>
        /\ df = raw
        /\ error = "none"
        /\ log = <<"warning">>

\* validated: a single bar whose low is above its high
LowAboveHighWitness ==
    /\ impl = "processor" /\ pc = "validated"
    /\ NRows(raw) = 1
    /\ LowAboveHighRows = {1}
    /\ df = raw

\* C19: the timezone step succeeds on timestamps without a zone and on
\* timestamps with one, and leaves the column in UTC.
NormalizeSucceeds ==
    (trace # <<>> /\ LastStep \in {"normalize_data", "normalize_timezone"}) =>
        /\ pc # "failed"
        /\ df.tz = "UTC"

\* C20: for a month of daily bars with two closes missing and one duplicated
\* timestamp, processing and then checking gives a series with no null
\* price, sma_20 defined from the 20th bar on, and exactly one
\* duplicate-timestamp issue.
EndToEnd ==
    (impl = "dag" /\ Checked /\ raw \in GapFrames) =>
        /\ \A c \in PriceColumns : NullRows(c) = {}
        /\ \A i \in 20..NRows(df) : ~IsNaN(df.col["sma_20"][i])
        /\ Cardinality(IssuesOfKind("duplicate")) = 1

----------------------------------------------------------------------------
(* Properties of process_data as a whole.                                  *)

\* C21: on every validated, gap-filled series the two orchestrations agree:
\* indicators then normalization (processor.py) gives the same outcome, the
\* same timestamps and the same indicator values at every bar, as
\* normalization then indicators (financial_pipeline.py).
OrchestrationsAgree ==
    (impl = "processor" /\ pc = "filled") =>
        ProcessTail(df) = DagProcessTail(df)

\* C22: when process_data has raised, the caller's table is exactly as it
\* was before the call: no coerced timestamps, no filled gaps, no indicator
\* columns.
ProcessFailsAtomically ==
    (pc = "failed" /\ LastStep \notin {"check_data_quality", "store_data"}) =>
        /\ df = raw
        /\ ~coerced

\* C23: the indicator step applied to a series of zero bars fails; it does
\* not return an empty enriched series.
EmptySeriesRejected ==
    (LastStep = "calculate_technical_indicators" /\ NRows(raw) = 0) =>
        pc = "failed"

----------------------------------------------------------------------------
(* Properties of the rate limiters.                                        *)

\* the calls that were let through, in the order they were made
Grants == SelectSeq(history, LAMBDA h : h.granted)

\* the times of the grants made so far that are less than one period old
RecentGrants ==
    LET g == SelectSeq(history, LAMBDA h : h.granted /\ clock - h.at < limiter.period)
    IN  [i \in 1..Len(g) |-> g[i].at]

\* any calls + 1 grants span at least one period, so no window shorter than
\* the period holds more than calls of them
GrantsSpread ==
    impl = "limiter" =>
        \A i \in 1..(Len(Grants) - limiter.calls) :
            Grants[i + limiter.calls].at - Grants[i].at >= limiter.period

\* a call of can_proceed answers True exactly when fewer than calls grants
\* are less than one period old, a refused call records nothing, and a call
\* made when the oldest recorded grant is a period old is granted
CanProceedStep ==
    (impl = "limiter" /\ Len(history') = Len(history) + 1) =>
        LET h == history'[Len(history')]
        IN  /\ h.granted <=> Len(RecentGrants) < limiter.calls
            /\ ~h.granted => limiter'.timestamps = RecentGrants
            /\ h.granted => limiter'.timestamps = Append(RecentGrants, clock)
            /\ (limiter.timestamps # <<>>
                  /\ clock - limiter.timestamps[1] >= limiter.period) => h.granted

\* C24: for can_proceed calls at non-decreasing times, at most `calls` of
\* the calls made within any window shorter than `period` return True; once
\* `calls` grants lie within the current period the next call returns False
\* and records no timestamp, and a grant is possible again as soon as the
\* oldest recorded grant is at least `period` old.
LimiterBound == []GrantsSpread /\ [][CanProceedStep]_vars

\* a limiter of one call per period granted, refused, and granted again
\* exactly one period after the first grant
LimiterWitness ==
    /\ impl = "limiter" /\ limiter.calls = 1
    /\ \E i \in 2..(Len(history) - 1) :
          /\ history[i - 1].granted
          /\ ~history[i].granted
          /\ history[i + 1].granted
          /\ history[i + 1].at = history[i - 1].at + limiter.period

\* C25: for sequential wait_if_needed calls on the utility limiter, at most
\* `calls` of the calls return within any window of length `period`, a call
\* that slept counting at the time it returns.
UtilityWindowBound ==
    impl = "utility_limiter" =>
        \A i \in 1..(Len(history) - limiter.calls) :
            history[i + limiter.calls].returned - history[i].returned >= limiter.period

----------------------------------------------------------------------------
(* Properties of the workflow and of the metrics its tasks record.         *)

\* the task has been started at least once
Started(t) == tasks[t].try_number > 0

Succeeded(t) == tasks[t].state = "success"

\* the tasks of a symbol start in the order collect, process, store, each
\* after the one before it has succeeded, and none before
\* initialize_components has succeeded
StartedInOrder ==
    \A s \in Symbols :
        /\ Started(<<"store_data", s>>) => Succeeded(<<"process_data", s>>)
        /\ Started(<<"process_data", s>>) => Succeeded(<<"collect_data", s>>)
        /\ Started(<<"collect_data", s>>) => Succeeded(<<"initialize_components", "">>)

\* the task of a symbol that has not run yet
Waiting(op, s) == tasks[<<op, s>>].state = "none"

\* no task of a symbol waits for, or is given up because of, a task of
\* another symbol: a task whose own predecessor has succeeded can start,
\* and a task is given up only when initialize_components or a task of its
\* own symbol has failed
BranchesIndependent ==
    \A s \in Symbols :
        /\ (Waiting("collect_data", s) /\ Succeeded(<<"initialize_components", "">>))
              => ENABLED Begin("collect_data", s)
        /\ (Waiting("process_data", s) /\ Succeeded(<<"collect_data", s>>))
              => ENABLED Begin("process_data", s)
        /\ (Waiting("store_data", s) /\ Succeeded(<<"process_data", s>>))
              => ENABLED Begin("store_data", s)
        /\ \A op \in Operations :
              tasks[<<op, s>>].state = "upstream_failed" =>
                  \/ tasks[<<"initialize_components", "">>].state = "failed"
                  \/ \E o \in Operations : tasks[<<o, s>>].state = "failed"

\* C26: for every symbol store_data starts only after process_data has
\* succeeded, which starts only after collect_data has succeeded, and no
\* task of a symbol starts before initialize_components has succeeded;
\* tasks of different symbols are not ordered with respect to each other,
\* and a failure in the branch of one symbol does not keep the branch of
\* another from running to storage.
WorkflowOrder ==
    impl = "workflow" => StartedInOrder /\ BranchesIndependent

\* the collection of one symbol failed for good, after all its retries, its
\* later tasks were given up, and the other symbol was stored
WorkflowOrderWitness ==
    /\ impl = "workflow"
    /\ \E s, r \in Symbols :
          /\ s # r
          /\ tasks[<<"collect_data", s>>].state = "failed"
          /\ tasks[<<"collect_data", s>>].try_number = Retries + 1
          /\ tasks[<<"store_data", s>>].state = "upstream_failed"
          /\ Succeeded(<<"store_data", r>>)

\* the operations a task has recorded
OperationsOf(op, s) ==
    {id \in DOMAIN metrics : metrics[id].operation = op /\ metrics[id].symbol = s}

\* every id was returned by one start_operation call, is started until its
\* one end_operation call, and ends as success or as error with the text of
\* the exception; each attempt of a task has its own operation, ended when
\* the attempt is over, and only the attempt that succeeded is a success
MetricsConsistent ==
    impl = "workflow" =>
        /\ DOMAIN history.calls = DOMAIN metrics
        /\ \A id \in DOMAIN metrics :
              /\ Called(id).started = 1
              /\ Called(id).ended <= 1
              /\ metrics[id].status = "started" <=> Called(id).ended = 0
              /\ metrics[id].status = "success" => metrics[id].error = "None"
              /\ metrics[id].status = "error" =>
                    metrics[id].error = CallError(metrics[id].operation)
        /\ \A op \in Operations, s \in Symbols :
              LET t == tasks[<<op, s>>]
              IN  /\ Cardinality(OperationsOf(op, s)) = t.try_number
                  /\ t.try_number > 0 => t.operation_id \in OperationsOf(op, s)
                  /\ \A id \in OperationsOf(op, s) :
                        /\ metrics[id].status = "started"
                              <=> (t.state = "running" /\ id = t.operation_id)
                        /\ metrics[id].status = "success"
                              <=> (t.state = "success" /\ id = t.operation_id)

\* a call of end_operation with an unknown id changes no metric
UnknownEndStep ==
    (impl = "workflow" /\ history'.unknown # history.unknown) => metrics' = metrics

\* C27: every operation a task records is 'started' until it is ended and
\* is ended exactly once before the task finishes, as 'success' exactly
\* when the wrapped call returned normally and as 'error' with the error
\* text otherwise; end_operation on an id that was never started leaves the
\* metrics unchanged; no two start_operation calls share an operation id.
MetricsLifecycle == []MetricsConsistent /\ [][UnknownEndStep]_vars

\* a collection that failed once and succeeded at its retry: two operations
\* of the same task, one an error and one a success, while another task is
\* running, after an end_operation call with an unknown id
MetricsWitness ==
    /\ impl = "workflow"
    /\ history.unknown = 1
    /\ \E s \in Symbols :
          /\ Succeeded(<<"collect_data", s>>)
          /\ tasks[<<"collect_data", s>>].try_number = 2
          /\ {metrics[id].status : id \in OperationsOf("collect_data", s)}
                = {"error", "success"}
          /\ tasks[<<"process_data", s>>].state = "running"

====
